---- MODULE Spec2Model ----
(***************************************************************************)
(* Model of src/pytorch/run_tests.py: the test-execution orchestrator.     *)
(*                                                                         *)
(* One log path is modelled, hence one checkpoint file (checkpoint_path is *)
(* a function of the log path).  A behaviour is a succession of runs of    *)
(* main() against that log path; a run may be killed from outside at any   *)
(* point, and the checkpoint file survives from one run to the next.       *)
(* Indices are 0-based as in the source; TLA+ sequences are 1-based, so    *)
(* test_names[i] of the source is At(test_names, i) here.                  *)
(***************************************************************************)
EXTENDS Integers, Sequences, FiniteSets, TLC

\* Bound: the longest identifier list a run is given.
MaxLen == 2

\* The identifiers lists are built from (opaque strings; a list may repeat
\* one, as a CSV file may hold the same test_name in two rows).
Ids == {"a", "b"}

\* The non-empty lists a run can be given.  Identifiers are opaque, so the
\* lists are taken up to renaming: the first identifier of a list is "a".
TestLists == {l \in UNION {[1..n -> Ids] : n \in 1..MaxLen} : l[1] = "a"}

\* Python's None / JSON null.
None == "None"

At(seq, k) == seq[k + 1]

Last(seq) == seq[Len(seq)]

STATE_PASSED == "passed"
STATE_SKIPPED == "skipped"
STATE_ERROR == "error"
STATE_FAILED == "failed"
STATE_TIMEDOUT == "timedout"

\* ------------------------------------------------------------------------
\* The Runner: run_test and its classification helpers.
\* ------------------------------------------------------------------------

\* The captured stdout+stderr of a child is modelled by the set of the
\* substrings, among those the classifiers search for, that occur in it.
\* "N skipped" stands for a match of the regular expression \d+\s+skipped.
Markers == {"Timeout", "RuntimeError", " SKIPPED", "N skipped", "skipped=", "OK"}

Outputs == SUBSET Markers

\* Exit codes: zero and one representative non-zero code.
ReturnCodes == {0, 1}

output_indicates_skipped(out) ==
    \/ " SKIPPED" \in out
    \/ "N skipped" \in out
    \/ ("skipped=" \in out /\ "OK" \in out)

output_indicates_runtime_error(out) == "RuntimeError" \in out

\* "TimeoutExpired" in combined implies "Timeout" in combined: one marker.
output_indicates_timeout(out) == "Timeout" \in out

\* What subprocess.run can do, seen from run_test: return a CompletedProcess,
\* raise TimeoutExpired, raise another exception (the command cannot be
\* launched).  "escape_*" stands for an exception raised in run_test outside
\* its try block (header write) or inside one of its handlers, which leaves
\* run_test and reaches the handlers of the batch loop.
Completed(rc, out) == [kind |-> "completed", returncode |-> rc, out |-> out]

Raised(exc) == [kind |-> exc]

Returned(success, timed_out, state) ==
    [raised |-> None, success |-> success, timed_out |-> timed_out, state |-> state]

\* run_test with the skip signature looked for before the exit code.
run_test_skip_first(o) ==
    IF o.kind = "completed" THEN
        LET success == (o.returncode = 0)
        IN  IF output_indicates_skipped(o.out)
            THEN Returned(success, FALSE, STATE_SKIPPED)
            ELSE IF success THEN Returned(TRUE, FALSE, STATE_PASSED)
            ELSE IF output_indicates_timeout(o.out)
                 THEN Returned(FALSE, TRUE, STATE_TIMEDOUT)
                 ELSE Returned(FALSE, FALSE,
                               IF output_indicates_runtime_error(o.out)
                               THEN STATE_ERROR ELSE STATE_FAILED)
    ELSE IF o.kind = "TimeoutExpired" THEN Returned(FALSE, TRUE, STATE_TIMEDOUT)
    ELSE IF o.kind = "Exception" THEN Returned(FALSE, FALSE, STATE_ERROR)
    ELSE IF o.kind = "escape_TimeoutExpired" THEN [raised |-> "TimeoutExpired"]
    ELSE [raised |-> "Exception"]

\* run_test with the runtime-error signature looked for before the timeout one.
run_test_error_first(o) ==
    IF o.kind = "completed" THEN
        LET success == (o.returncode = 0)
        IN  IF success
            THEN Returned(TRUE, FALSE,
                          IF output_indicates_skipped(o.out)
                          THEN STATE_SKIPPED ELSE STATE_PASSED)
            ELSE IF output_indicates_runtime_error(o.out)
                 THEN Returned(FALSE, FALSE, STATE_ERROR)
                 ELSE IF output_indicates_timeout(o.out)
                      THEN Returned(FALSE, TRUE, STATE_TIMEDOUT)
                      ELSE Returned(FALSE, FALSE, STATE_FAILED)
    ELSE IF o.kind = "TimeoutExpired" THEN Returned(FALSE, TRUE, STATE_TIMEDOUT)
    ELSE IF o.kind = "Exception" THEN Returned(FALSE, FALSE, STATE_ERROR)
    ELSE IF o.kind = "escape_TimeoutExpired" THEN [raised |-> "TimeoutExpired"]
    ELSE [raised |-> "Exception"]

\* run_test, lines 132-199: the tuple returned (elapsed time left out), or the
\* exception that leaves the function.
run_test(o) ==
    IF o.kind = "completed" THEN
        LET success == (o.returncode = 0)
        IN  IF success
            THEN Returned(TRUE, FALSE,
                          IF output_indicates_skipped(o.out)
                          THEN STATE_SKIPPED ELSE STATE_PASSED)
            ELSE IF output_indicates_timeout(o.out)
                 THEN Returned(FALSE, TRUE, STATE_TIMEDOUT)
                 ELSE Returned(FALSE, FALSE,
                               IF output_indicates_runtime_error(o.out)
                               THEN STATE_ERROR ELSE STATE_FAILED)
    ELSE IF o.kind = "TimeoutExpired" THEN Returned(FALSE, TRUE, STATE_TIMEDOUT)
    ELSE IF o.kind = "Exception" THEN Returned(FALSE, FALSE, STATE_ERROR)
    ELSE IF o.kind = "escape_TimeoutExpired" THEN [raised |-> "TimeoutExpired"]
    ELSE [raised |-> "Exception"]

\* The body of the batch loop without line 500: the flag set at line 485
\* stays as it is in the TimeoutExpired handler.
loop_result_flag_kept(test_name, rt) ==
    IF rt.raised = None
    THEN [name |-> test_name, success |-> rt.success,
          timed_out |-> rt.timed_out, state |-> rt.state]
    ELSE IF rt.raised = "TimeoutExpired"
    THEN [name |-> test_name, success |-> FALSE,
          timed_out |-> FALSE, state |-> STATE_TIMEDOUT]
    ELSE [name |-> test_name, success |-> FALSE,
          timed_out |-> FALSE, state |-> STATE_ERROR]

\* The body of the batch loop around the call, lines 485-510: the entry that
\* is appended to results for test_name, whatever run_test did.
loop_result(test_name, rt) ==
    IF rt.raised = None
    THEN [name |-> test_name, success |-> rt.success,
          timed_out |-> rt.timed_out, state |-> rt.state]
    ELSE IF rt.raised = "TimeoutExpired"
    THEN [name |-> test_name, success |-> FALSE,
          timed_out |-> TRUE, state |-> STATE_TIMEDOUT]
    ELSE [name |-> test_name, success |-> FALSE,
          timed_out |-> FALSE, state |-> STATE_ERROR]

\* The default of --per-test-timeout.
per_test_timeout == 300

\* run_kw with timeout=timeout in it.
run_kw_timeout_set == {per_test_timeout}

\* The timeout= entries of run_kw (line 129): it carries none.
run_kw_timeout == {}

\* How a child process can behave.  A child stopped by pytest-timeout (the
\* --timeout flag of cmd) exits non-zero with "Timeout" in its output.
Behaviours == {"exits", "coop_timeout", "launch_fails", "hangs"}

\* subprocess.run(cmd, **run_kw): the outcomes it can deliver for a child of
\* the given behaviour.  Without timeout= it waits for the child for ever.
subprocess_run(behaviour, timeout) ==
    IF behaviour = "exits"
    THEN {Completed(rc, out) : rc \in ReturnCodes, out \in Outputs}
    ELSE IF behaviour = "coop_timeout"
    THEN {Completed(1, out) : out \in {x \in Outputs : "Timeout" \in x}}
    ELSE IF behaviour = "launch_fails"
    THEN {Raised("Exception")}
    ELSE IF timeout = {} THEN {} ELSE {Raised("TimeoutExpired")}

\* The tuples run_test can hand back for a child of each behaviour.
RunTestResults ==
    [b \in Behaviours |-> {run_test(o) : o \in subprocess_run(b, run_kw_timeout)}]

\* ------------------------------------------------------------------------
\* The Checkpoint Store.
\* ------------------------------------------------------------------------

\* The checkpoint file: absent, holding a JSON object, or torn: open(path,
\* 'w') has truncated it and json.dump has not (completely) written it.
Absent == [kind |-> "absent"]

Torn == [kind |-> "torn"]

\* The object write_checkpoint dumps, lines 292-301.  mode, csv_file,
\* pytorch_path and updated are written and never read back by the program;
\* they are left out.
checkpoint_data(last_test, next_test, last_index, total) ==
    [last_test |-> last_test, next_test |-> next_test,
     last_index |-> last_index, total |-> total]

Json(data) == [kind |-> "json", data |-> data]

\* None where a dict is expected.
NoneDict == [none |-> None]

\* read_checkpoint, lines 309-318: the dict, or None when the file is absent
\* or json.load raises on it (OSError and JSONDecodeError are swallowed).
read_checkpoint(file) == IF file.kind = "json" THEN file.data ELSE NoneDict

\* Path.unlink(missing_ok=True) inside try/except OSError: the file is gone,
\* or the OSError is swallowed and the file stays.
unlink(file, ok) == IF ok THEN Absent ELSE file

\* test_names.index(x): the first position of x, 0-based.
index(seq, x) == (CHOOSE k \in 1..Len(seq) :
                    seq[k] = x /\ \A j \in 1..(k - 1) : seq[j] # x) - 1

contains(seq, x) == \E k \in 1..Len(seq) : seq[k] = x

\* _resolve_start_index resuming at the index after the checkpoint's last_index.
resolve_start_index_by_last_index(names, cp, resume) ==
    IF ~resume THEN 0
    ELSE IF cp = NoneDict THEN 0
    ELSE IF cp.next_test = None THEN 0
    ELSE cp.last_index + 1

\* _resolve_start_index, lines 422-447 and 463: the index it returns.
resolve_start_index(names, cp, resume) ==
    IF ~resume THEN 0
    ELSE IF cp = NoneDict THEN 0
    ELSE IF cp.next_test = None THEN 0
    ELSE IF contains(names, cp.next_test) THEN index(names, cp.next_test)
    ELSE 0

\* _resolve_start_index without its last four lines (458-462).
resolve_checkpoint_file_warned_only(file, resume, no_checkpoint, start, ok1, ok2) ==
    IF ~resume /\ ~no_checkpoint /\ read_checkpoint(file) # NoneDict
    THEN unlink(file, ok1) ELSE file

\* _resolve_start_index with its last unlink under "not resume" as well.
resolve_checkpoint_file_fresh_only(file, resume, no_checkpoint, start, ok1, ok2) ==
    LET warned == IF ~resume /\ ~no_checkpoint /\ read_checkpoint(file) # NoneDict
                  THEN unlink(file, ok1) ELSE file
    IN  IF ~no_checkpoint /\ start = 0 /\ ~resume
        THEN unlink(warned, ok2) ELSE warned

\* _resolve_start_index with its last unlink not under "not no_checkpoint".
resolve_checkpoint_file_unguarded(file, resume, no_checkpoint, start, ok1, ok2) ==
    LET warned == IF ~resume /\ ~no_checkpoint /\ read_checkpoint(file) # NoneDict
                  THEN unlink(file, ok1) ELSE file
    IN  IF start = 0 THEN unlink(warned, ok2) ELSE warned

\* _resolve_start_index, lines 448-462: what is left of the checkpoint file.
\* ok1 and ok2 are the outcomes of the two unlink calls.
resolve_checkpoint_file(file, resume, no_checkpoint, start, ok1, ok2) ==
    LET warned == IF ~resume /\ ~no_checkpoint /\ read_checkpoint(file) # NoneDict
                  THEN unlink(file, ok1) ELSE file
    IN  IF ~no_checkpoint /\ start = 0 THEN unlink(warned, ok2) ELSE warned

\* Line 512 with test_names[i] in the place of test_names[i + 1].
next_test_of_current(names, k) == IF k + 1 < Len(names) THEN At(names, k) ELSE None

\* The next_test the batch loop passes to write_checkpoint, line 512.
next_test_of(names, k) == IF k + 1 < Len(names) THEN At(names, k + 1) ELSE None

\* ------------------------------------------------------------------------
\* The Batch Controller: summary and status of _run_test_batch.
\* ------------------------------------------------------------------------

StateLabels ==
    << <<STATE_PASSED, "Passed">>, <<STATE_SKIPPED, "Skipped">>,
       <<STATE_ERROR, "Error">>, <<STATE_FAILED, "Failed">>,
       <<STATE_TIMEDOUT, "Timed out">> >>

in_state(rs, state) == SelectSeq(rs, LAMBDA r : r.state = state)

names_of(rs) == [k \in 1..Len(rs) |-> rs[k].name]

\* Lines 538-549 without the test of line 546: a section for every state.
RECURSIVE summary_sections_every_label(_, _)
summary_sections_every_label(rs, k) ==
    IF k > Len(StateLabels) THEN <<>>
    ELSE <<[label |-> StateLabels[k][2],
            names |-> names_of(in_state(rs, StateLabels[k][1]))]>>
         \o summary_sections_every_label(rs, k + 1)

\* Lines 538-549: one section per non-empty bucket, in the fixed order.
RECURSIVE summary_sections(_, _)
summary_sections(rs, k) ==
    IF k > Len(StateLabels) THEN <<>>
    ELSE LET subset == in_state(rs, StateLabels[k][1])
             rest == summary_sections(rs, k + 1)
         IN  IF subset # <<>>
             THEN <<[label |-> StateLabels[k][2], names |-> names_of(subset)]>> \o rest
             ELSE rest

\* Lines 525-550: the summary block written to the log.
summary_of(rs) ==
    [total |-> Len(rs),
     passed |-> Len(in_state(rs, STATE_PASSED)),
     skipped |-> Len(in_state(rs, STATE_SKIPPED)),
     error |-> Len(in_state(rs, STATE_ERROR)),
     failed |-> Len(in_state(rs, STATE_FAILED)),
     timedout |-> Len(in_state(rs, STATE_TIMEDOUT)),
     sections |-> summary_sections(rs, 1)]

NoSummary == [total |-> -1]

\* Lines 554-555 with the skipped count among the bad ones.
batch_status_skipped_bad(rs) ==
    IF Len(in_state(rs, STATE_PASSED)) < Len(rs) THEN 1 ELSE 0

\* Lines 554-555: the value _run_test_batch returns.
batch_status(rs) ==
    IF Len(in_state(rs, STATE_ERROR)) > 0 \/ Len(in_state(rs, STATE_FAILED)) > 0
       \/ Len(in_state(rs, STATE_TIMEDOUT)) > 0
    THEN 1 ELSE 0

\* Line 517 breaking on every state but passed.
stops_unless_passed(r, stop_on_failure) == r.state # STATE_PASSED /\ stop_on_failure

\* Line 517 breaking on a failure whatever the flag.
stops_always(r, stop_on_failure) == ~r.success

\* Line 517: the condition of the break.
stops(r, stop_on_failure) == ~r.success /\ stop_on_failure

\* ------------------------------------------------------------------------
\* State.
\* ------------------------------------------------------------------------

VARIABLES
    pc,           \* where the current run of main() stands
    args,         \* the command line of the current run
    test_names,   \* the identifier list of the current run
    start_index,  \* the value _resolve_start_index returned
    i,            \* the loop variable of _run_test_batch
    results,      \* the results list of _run_test_batch
    child,        \* the behaviour of the child process of the test in flight
    cpFile,       \* the checkpoint file of the log path
    wrote,        \* history: how the checkpoint write of this iteration ended
    rm,           \* history: for a checkpoint file found by _resolve_start_index,
                  \* whether an unlink call on it raises OSError
    summary,      \* the summary block of the finished batch
    exit_code,    \* exit_code of main
    prev,         \* history: the run that was killed in the middle of a
                  \* checkpoint write, and is now run again, as the same
                  \* command with --resume added
    inv,          \* the invocation outcome under classification (RunnerSpec),
                  \* the batch whose log is written and parsed (LogSpec),
                  \* the file --rerun-failed names, until the first test of
                  \* the rerun (RerunSpec)
    res,          \* the results entry made of inv (RunnerSpec), what
                  \* parse_log_for_rerun returns (LogSpec)
    log,          \* the lines of the log file at args.log_file
    by_id         \* the by_id the batch hands to run_test (MainSpec, RerunSpec)

vars == <<pc, args, test_names, start_index, i, results, child, cpFile, wrote,
          rm, summary, exit_code, prev, inv, res, log, by_id>>

\* What the loop and checkpoint view of a run (Spec) leaves out.
logvars == <<log, by_id>>

Sources == {"csv", "all_tests", "rerun"}

NoArgs == [src |-> "csv", resume |-> FALSE, no_checkpoint |-> FALSE,
           stop_on_failure |-> FALSE]

NoPrev == [at |-> None]

NoInv == Raised(None)

NoRes == [name |-> None]

\* No run in progress, no checkpoint file.
Fresh ==
    /\ pc = "idle"
    /\ args = NoArgs
    /\ test_names = <<>>
    /\ start_index = 0
    /\ i = 0
    /\ results = <<>>
    /\ child = None
    /\ cpFile = Absent
    /\ wrote = None
    /\ rm = None
    /\ summary = NoSummary
    /\ exit_code = 1
    /\ prev = NoPrev
    /\ log = <<>>
    /\ by_id = None

Init ==
    /\ Fresh
    /\ inv = NoInv
    /\ res = NoRes

\* ------------------------------------------------------------------------
\* Actions of a run.
\* ------------------------------------------------------------------------

\* The indices whose test has finished in the current run.
Finished == {start_index + k - 1 : k \in 1..Len(results)}

\* main, up to the call of _resolve_start_index (csv, all_tests) or of
\* _run_test_batch with start index 0 (rerun, lines 724-727).  A run starts
\* when no other is in progress on the log path.
StartRun(src, names, resume, no_checkpoint, stop_on_failure) ==
    /\ pc = "idle"
    /\ args' = [src |-> src, resume |-> resume, no_checkpoint |-> no_checkpoint,
                stop_on_failure |-> stop_on_failure]
    /\ test_names' = names
    /\ start_index' = 0
    /\ i' = 0
    /\ results' = <<>>
    /\ exit_code' = 1
    /\ pc' = IF src = "rerun" THEN "invoke" ELSE "resolve"
    /\ prev' = IF /\ prev # NoPrev
                  /\ resume /\ ~no_checkpoint
                  /\ src = prev.src /\ names = prev.names
                  /\ stop_on_failure = prev.stop_on_failure
               THEN prev ELSE NoPrev
    /\ UNCHANGED <<child, cpFile, wrote, rm, summary, inv, res, logvars>>

\* _resolve_start_index, then the head of the for loop of _run_test_batch:
\* the index returned is 0 or a position of the list, and the list is not
\* empty, so the loop has a first turn.
Resolve ==
    /\ pc = "resolve"
    /\ \E ok1, ok2 \in BOOLEAN :
        LET start == resolve_start_index(test_names, read_checkpoint(cpFile),
                                         args.resume)
            file == resolve_checkpoint_file(cpFile, args.resume,
                                            args.no_checkpoint, start, ok1, ok2)
        IN  /\ start_index' = start
            /\ i' = start
            /\ cpFile' = file
            /\ rm' = IF cpFile = Absent THEN None
                     ELSE IF ok1 /\ ok2 THEN "ok" ELSE "oserror"
            /\ pc' = "invoke"
    /\ UNCHANGED <<args, test_names, results, child, wrote, summary,
                   exit_code, prev, inv, res, logvars>>

\* run_test up to subprocess.run: the child of test i is started.
Invoke ==
    /\ pc = "invoke"
    /\ \E b \in Behaviours : child' = b
    /\ rm' = None
    /\ pc' = "running"
    /\ UNCHANGED <<args, test_names, start_index, i, results, cpFile,
                   wrote, summary, exit_code, prev, inv, res, logvars>>

\* write_checkpoint without its try/except: the OSError leaves the loop.
write_oserror_escapes == "done"

\* Lines 304-305, except OSError: pass: where the loop stands after a
\* checkpoint write that raised OSError.
write_oserror_swallowed == "stop_check"

\* subprocess.run returns or raises, run_test classifies and returns, and the
\* loop appends the entry (lines 133-199, 487-510).  With checkpointing
\* enabled write_checkpoint is called, up to line 303: open(path, 'w')
\* truncates the file, or raises OSError, which is swallowed.
TestReturns ==
    /\ pc = "running"
    /\ \E rt \in RunTestResults[child] :
        results' = Append(results, loop_result(At(test_names, i), rt))
    /\ \E ok \in BOOLEAN :
        IF args.no_checkpoint
        THEN /\ cpFile' = cpFile
             /\ wrote' = wrote
             /\ pc' = "stop_check"
        ELSE IF ok
        THEN /\ cpFile' = Torn
             /\ wrote' = wrote
             /\ pc' = "dump_cp"
        ELSE /\ cpFile' = cpFile
             /\ wrote' = "oserror"
             /\ pc' = write_oserror_swallowed
    /\ UNCHANGED <<args, test_names, start_index, i, child, rm,
                   summary, exit_code, prev, inv, res, logvars>>

\* write_checkpoint, lines 304-306: json.dump and close, or OSError, swallowed.
DumpCheckpoint ==
    /\ pc = "dump_cp"
    /\ \E ok \in BOOLEAN :
        IF ok
        THEN /\ cpFile' = Json(checkpoint_data(At(test_names, i),
                                               next_test_of(test_names, i), i,
                                               Len(test_names)))
             /\ wrote' = "ok"
             /\ pc' = "stop_check"
        ELSE /\ cpFile' = cpFile
             /\ wrote' = "oserror"
             /\ pc' = write_oserror_swallowed
    /\ UNCHANGED <<args, test_names, start_index, i, results, child, rm,
                   summary, exit_code, prev, inv, res, logvars>>

\* The for loop handing out the index it has just handed out.
next_index_same(k) == k

\* Line 478: the index range(start_index, len(test_names)) hands out after k.
next_index(k) == k + 1

\* Lines 517-522, and either the next turn of the for loop or, the loop
\* left, lines 524-555: the summary is written and the batch returns its
\* status.
StopCheck ==
    /\ pc = "stop_check"
    /\ IF ~stops(Last(results), args.stop_on_failure) /\ i + 1 < Len(test_names)
       THEN /\ pc' = "invoke"
            /\ i' = next_index(i)
            /\ UNCHANGED <<summary, exit_code>>
       ELSE /\ pc' = "done"
            /\ i' = i
            /\ summary' = summary_of(results)
            /\ exit_code' = batch_status(results)
    /\ child' = None
    /\ wrote' = None
    /\ UNCHANGED <<args, test_names, start_index, results, cpFile,
                   rm, prev, inv, res, logvars>>

\* What a process leaves behind when it ends: the files, nothing of its memory.
Gone ==
    /\ args' = NoArgs
    /\ test_names' = <<>>
    /\ start_index' = 0
    /\ i' = 0
    /\ results' = <<>>
    /\ child' = None
    /\ wrote' = None
    /\ rm' = None
    /\ summary' = NoSummary
    /\ exit_code' = 1
    /\ UNCHANGED <<cpFile, inv, res, logvars>>

\* main's sys.exit(exit_code), line 819.
Exit ==
    /\ pc = "done"
    /\ pc' = "idle"
    /\ prev' = NoPrev
    /\ Gone

\* The process is terminated from outside, at any point.
Kill ==
    /\ pc \notin {"idle", "done"}
    /\ pc' = "idle"
    /\ prev' = IF pc = "dump_cp" /\ args.src # "rerun"
               THEN [at |-> pc, src |-> args.src, names |-> test_names,
                     stop_on_failure |-> args.stop_on_failure,
                     done |-> Finished]
               ELSE NoPrev
    /\ Gone

ControllerStep ==
    \/ Resolve
    \/ Invoke
    \/ TestReturns
    \/ DumpCheckpoint
    \/ StopCheck
    \/ Exit

Next ==
    \/ \E src \in Sources, names \in TestLists, resume \in BOOLEAN,
          no_checkpoint \in BOOLEAN, stop_on_failure \in BOOLEAN :
          StartRun(src, names, resume, no_checkpoint, stop_on_failure)
    \/ Resolve
    \/ Invoke
    \/ TestReturns
    \/ DumpCheckpoint
    \/ StopCheck
    \/ Exit
    \/ Kill

Spec == Init /\ [][Next]_vars

\* A child that is not hung exits, and subprocess.run then returns: the step
\* that hands the outcome of a child back to the loop is taken whenever it
\* can be.  Nothing forces a run to be started, nor the process to be killed.
FairSpec == Spec /\ WF_vars(TestReturns)

\* The controller is a sequential program: the step it is at is taken, when
\* it can be.  A child that hangs leaves it no step; nothing forces a run to
\* be started, nor the process to be killed.
ProgressSpec == Spec /\ WF_vars(ControllerStep)

\* ------------------------------------------------------------------------
\* The Runner and the loop body as functions of what the invocation does.
\* ------------------------------------------------------------------------

\* Every outcome the handlers of run_test and of the batch loop provide for.
Invocations ==
    {Completed(rc, out) : rc \in ReturnCodes, out \in Outputs}
    \cup {Raised(e) : e \in {"TimeoutExpired", "Exception",
                            "escape_TimeoutExpired", "escape_Exception"}}

RunnerInit ==
    /\ Fresh
    /\ inv \in Invocations
    /\ res = NoRes

\* One turn of the loop body for an invocation that ends as inv.
Classify ==
    /\ res = NoRes
    /\ res' = loop_result("a", run_test(inv))
    /\ UNCHANGED <<pc, args, test_names, start_index, i, results, child,
                   cpFile, wrote, rm, summary, exit_code, prev, inv, logvars>>

RunnerNext == Classify

RunnerSpec == RunnerInit /\ [][RunnerNext]_vars

\* ------------------------------------------------------------------------
\* Properties.
\* ------------------------------------------------------------------------

States == {STATE_PASSED, STATE_SKIPPED, STATE_ERROR, STATE_FAILED, STATE_TIMEDOUT}

\* The entries the loop has made: those of the results list, and the one made
\* of the invocation under classification.
Entries == {results[k] : k \in 1..Len(results)} \cup ({res} \ {NoRes})

\* C6 (RunnerSpec). Outcome invariant: every entry the batch loop appends
\* carries one of the five states, and its success flag is true exactly when
\* that state is passed or skipped; on the normal return of run_test, on its
\* two exception paths and on the two exception paths of the loop.
C6_OutcomeInvariant ==
    \A r \in Entries :
        /\ r.state \in States
        /\ r.success <=> r.state \in {STATE_PASSED, STATE_SKIPPED}

\* An entry made on an exception path of the batch loop.
C6_Witness == inv = Raised("escape_Exception") /\ res # NoRes /\ ~res.success

\* C7 (RunnerSpec). Classification table of a completed invocation, by exit
\* code and by the signatures found in the captured output.
C7_ClassificationTable ==
    (inv.kind = "completed" /\ res # NoRes) =>
        LET nonzero == inv.returncode # 0
            t == output_indicates_timeout(inv.out)
            e == output_indicates_runtime_error(inv.out)
            s == output_indicates_skipped(inv.out)
        IN  /\ (nonzero /\ t) => res.state = STATE_TIMEDOUT
            /\ (nonzero /\ e /\ ~t) => res.state = STATE_ERROR
            /\ (nonzero /\ ~e /\ ~t) => res.state = STATE_FAILED
            /\ (~nonzero /\ s) => res.state = STATE_SKIPPED
            /\ (~nonzero /\ ~s) => res.state = STATE_PASSED

\* Non-zero exit with both the timeout and the runtime-error signature.
C7_Witness ==
    /\ inv.kind = "completed"
    /\ inv.returncode # 0
    /\ {"Timeout", "RuntimeError"} \subseteq inv.out
    /\ res # NoRes
    /\ res.state = STATE_TIMEDOUT

\* The checkpoint object a run over names writes after index k.
WrittenAfter(names, k) ==
    Json([last_test |-> At(names, k),
          next_test |-> IF k = Len(names) - 1 THEN None ELSE At(names, k + 1),
          last_index |-> k, total |-> Len(names)])

\* The step of _resolve_start_index.
Resolved == pc = "resolve" /\ pc' # "idle"

\* C1 (Spec). Resume idempotence: a run with resume=true, over a list for
\* which the checkpoint was written after index k < N-1, starts at index k+1.
\* Stated for the runs that call _resolve_start_index (csv, all_tests).
C1_ResumeIdempotence ==
    [][\A k \in 0..(Len(test_names) - 2) :
          (Resolved /\ args.resume /\ cpFile = WrittenAfter(test_names, k))
              => start_index' = k + 1]_vars

\* C2 (Spec), as claimed. Checkpoint round-trip: with checkpointing enabled,
\* right after the loop has processed index i, read_checkpoint returns
\* last_index = i, last_test = identifiers[i], total = N and next_test =
\* identifiers[i+1], null if and only if i = N-1.
RoundTrip ==
    LET cp == read_checkpoint(cpFile)
        n == Len(test_names)
    IN  /\ cp # NoneDict
        /\ cp.last_index = i
        /\ cp.last_test = At(test_names, i)
        /\ cp.total = n
        /\ i < n - 1 => cp.next_test = At(test_names, i + 1)
        /\ cp.next_test = None <=> i = n - 1

C2_RoundTrip_Claimed ==
    (pc = "stop_check" /\ ~args.no_checkpoint) => RoundTrip

\* C2 (Spec), amended. The same, for a checkpoint write that did not end in
\* an OSError (which write_checkpoint swallows).
C2_RoundTrip ==
    (pc = "stop_check" /\ ~args.no_checkpoint /\ wrote = "ok") => RoundTrip

\* A checkpoint written after an index that is not the last one.
C2_Witness ==
    /\ pc = "stop_check"
    /\ wrote = "ok"
    /\ i + 1 < Len(test_names)
    /\ read_checkpoint(cpFile).next_test = At(test_names, i + 1)
    /\ At(test_names, i + 1) # At(test_names, i)

\* C3 (Spec). Crash recovery bound: a run with resume=true that follows a
\* killed, checkpointing run over the same list re-executes at most one test
\* that had completed in the killed run.  Stated for the third kill point the
\* claim names, a kill while the checkpoint file is being written, for the
\* runs that call _resolve_start_index, and for a second run that is the
\* command of the killed one with --resume added.
C3_CrashRecoveryBound ==
    prev # NoPrev =>
        Cardinality(prev.done \cap Finished) <= 1

\* C4 (Spec). Resume fallback: with resume=true, _resolve_start_index returns
\* 0 when the checkpoint is absent or unreadable, when its next_test is null,
\* or when its next_test does not occur in the current list; otherwise it
\* returns a position at which next_test stands in the current list.  In
\* every case the batch goes on to invoke a test.
C4_ResumeFallback ==
    [][(Resolved /\ args.resume) =>
          /\ IF cpFile = Absent \/ cpFile = Torn
             THEN start_index' = 0
             ELSE IF cpFile.data.next_test = None
             THEN start_index' = 0
             ELSE IF \A k \in 1..Len(test_names) :
                        test_names[k] # cpFile.data.next_test
             THEN start_index' = 0
             ELSE /\ start_index' \in 0..(Len(test_names) - 1)
                  /\ At(test_names, start_index') = cpFile.data.next_test
          /\ pc' = "invoke"
          /\ i' = start_index']_vars

\* A resumed run about to invoke its first test at a position past the head
\* of the list, where the checkpoint's next_test stands.
C4_Witness ==
    /\ pc = "invoke"
    /\ args.resume
    /\ args.src # "rerun"
    /\ results = <<>>
    /\ start_index > 0
    /\ cpFile.kind = "json"
    /\ At(test_names, start_index) = cpFile.data.next_test

\* The point at which a run is about to have its first test executed.
BeforeFirstTest == pc = "invoke" /\ results = <<>>

Good(r) == r.state \in {STATE_PASSED, STATE_SKIPPED}

\* How many times x stands in seq.
Count(seq, x) == Cardinality({k \in 1..Len(seq) : seq[k] = x})

\* The identifiers the summary lists, section after section.
RECURSIVE SummaryNames(_)
SummaryNames(sections) ==
    IF sections = <<>> THEN <<>>
    ELSE sections[1].names \o SummaryNames(Tail(sections))

\* The summary lists the identifiers at the indices start_index..last of
\* the list, each as often as it stands there, and nothing else.
SummaryCovers(last) ==
    /\ summary.total = last - start_index + 1
    /\ \A id \in Ids :
          Count(SummaryNames(summary.sections), id)
              = Count(SubSeq(test_names, start_index + 1, last + 1), id)

\* C8 (Spec). Stop-on-failure: with stop-on-failure enabled, once the test
\* at an index is the first whose state is not passed or skipped, its entry
\* is the last one recorded, the loop never moves to a later index nor
\* invokes another test, and the summary lists the identifiers up to that
\* index only.  A skipped test does not stop the loop: a loop that ended
\* with passed and skipped entries only has run to the end of the list.
C8_StopOnFailure ==
    args.stop_on_failure =>
        /\ \A k \in 1..Len(results) :
              ~Good(results[k]) =>
                  /\ k = Len(results)
                  /\ i = start_index + k - 1
                  /\ pc \notin {"invoke", "running"}
                  /\ pc = "done" => SummaryCovers(i)
        /\ (pc = "done" /\ \A k \in 1..Len(results) : Good(results[k]))
              => start_index + Len(results) = Len(test_names)

\* A batch stopped by a failed test with an identifier left unexecuted.
C8_Witness ==
    /\ pc = "done"
    /\ args.stop_on_failure
    /\ results # <<>>
    /\ Last(results).state = STATE_FAILED
    /\ start_index + Len(results) < Len(test_names)
    /\ summary.total = Len(results)

\* C9 (Spec). One bad test never aborts the batch: with stop-on-failure
\* disabled, a batch that has reached its summary has recorded exactly one
\* entry for every index from start_index to the end of the list, in order;
\* the entry of a child that could not be launched has state error; and
\* short of a child that never exits, the controller always has a next step
\* to take, whatever the behaviours of the children.
C9_NeverAborts ==
    /\ (~args.stop_on_failure /\ pc = "done") =>
          /\ names_of(results)
                = SubSeq(test_names, start_index + 1, Len(test_names))
          /\ SummaryCovers(Len(test_names) - 1)
    /\ (child = "launch_fails" /\ pc \in {"dump_cp", "stop_check"}) =>
          /\ Last(results).state = STATE_ERROR
          /\ Last(results).name = At(test_names, i)
    /\ (pc \notin {"idle", "done"} /\ ~(pc = "running" /\ child = "hangs")) =>
          ENABLED ControllerStep

\* A batch that went on after a failed test and has recorded the entry of a
\* child that could not be launched.
C9_Witness ==
    /\ pc = "stop_check"
    /\ ~args.stop_on_failure
    /\ child = "launch_fails"
    /\ Len(results) = 2
    /\ results[1].state = STATE_FAILED
    /\ results[2].state = STATE_ERROR

\* The invocation in flight hands control back to the batch loop.
Returns == pc = "running" /\ pc' \notin {"running", "idle"}

Text == [k |-> "text"]

Sep == [k |-> "sep"]

ModeLine(mode) == [k |-> "mode", mode |-> mode]

SectionLine(label) == [k |-> "section", label |-> label]

EntryLine(name) == [k |-> "entry", name |-> name]

\* The "Running: <name>" line of the header of run_test: a Text for the
\* parser, kept apart to tell the per-test blocks of a log.
RunningLine(name) == [k |-> "running", name |-> name]

Modes == {"csv", "full_suite"}

\* What a child can print, as the log sees it: lines that match no pattern,
\* or lines that read like a section of a summary naming the test, as a test
\* that prints a report of its own sub-tests does.
CapturedOutputs == {"plain", "echo"}

\* Lines 150-153: result.stdout and result.stderr are written to the log.
output_lines(out, test_name) ==
    IF out = "echo"
    THEN <<SectionLine("Failed"), EntryLine(test_name)>>
    ELSE <<Text>>

\* Lines 480-483 (progress), 124-127 (header), 150-153 (captured output) and
\* 166-169 (status): what one turn of the loop writes to the log.
test_block(test_name, out) ==
    <<Text, Sep, RunningLine(test_name), Sep>> \o output_lines(out, test_name)
        \o <<Text>>

\* Lines 545-549: the lines of the per-state sections of the summary.
RECURSIVE section_lines(_)
section_lines(sections) ==
    IF sections = <<>> THEN <<>>
    ELSE <<Text, SectionLine(sections[1].label)>>
         \o [k \in 1..Len(sections[1].names) |-> EntryLine(sections[1].names[k])]
         \o section_lines(Tail(sections))

\* Lines 530-553: the summary block.  The title and the count lines match no
\* pattern ("Failed: 1" is not "Failed tests:").
summary_lines(rs) ==
    <<Text, Sep, Text, Sep, Text>> \o section_lines(summary_of(rs).sections)
        \o <<Sep, Text>>

\* Lines 685-688: what main writes when it has opened the log.
header_lines == <<Text, Text>>

\* Lines 717-720, 732-735, 799-802: the mode header of a run.
mode_lines(mode) == <<Text, ModeLine(mode)>>

\* Lines 471-474: count_msg.
count_lines == <<Text>>

\* Lines 518-521: the stop message.
stop_lines == <<Text>>

MODE_LINE_RE(line) == line.k = "mode" /\ line.mode \in Modes

FAILED_TEST_LINE_RE(line) == line.k = "entry"

\* A file handed to parse_log_for_rerun.
File(content) == [readable |-> TRUE, content |-> content]

Unreadable == [readable |-> FALSE, content |-> <<>>]

\* Lines 382-387: the mode of the first line MODE_LINE_RE matches.
RECURSIVE first_mode(_)
first_mode(content) ==
    IF content = <<>> THEN None
    ELSE IF MODE_LINE_RE(content[1]) THEN content[1].mode
    ELSE first_mode(Tail(content))

\* Lines 389-413: the scan for the two sections.
RECURSIVE scan_sections(_, _, _, _, _)
scan_sections(content, in_failed_section, in_timeout_section, failed_tests, timeout_tests) ==
    IF content = <<>>
    THEN [failed_tests |-> failed_tests, timeout_tests |-> timeout_tests]
    ELSE LET line == content[1]
             rest == Tail(content)
         IN  IF line.k = "section" /\ line.label = "Failed"
             THEN scan_sections(rest, TRUE, FALSE, failed_tests, timeout_tests)
             ELSE IF line.k = "section" /\ line.label = "Timed out"
             THEN scan_sections(rest, FALSE, TRUE, failed_tests, timeout_tests)
             ELSE IF line.k = "sep"
             THEN scan_sections(rest, FALSE, FALSE, failed_tests, timeout_tests)
             ELSE IF FAILED_TEST_LINE_RE(line) /\ in_failed_section
             THEN scan_sections(rest, in_failed_section, in_timeout_section,
                                Append(failed_tests, line.name), timeout_tests)
             ELSE IF FAILED_TEST_LINE_RE(line) /\ in_timeout_section
             THEN scan_sections(rest, in_failed_section, in_timeout_section,
                                failed_tests, Append(timeout_tests, line.name))
             ELSE scan_sections(rest, in_failed_section, in_timeout_section,
                                failed_tests, timeout_tests)

\* parse_log_for_rerun, lines 364-414.  (None, None, None) is the record
\* with read_error set.
parse_log_for_rerun(file) ==
    IF ~file.readable
    THEN [read_error |-> TRUE, failed_tests |-> <<>>, timeout_tests |-> <<>>,
          mode |-> None]
    ELSE LET sections == scan_sections(file.content, FALSE, FALSE, <<>>, <<>>)
         IN  [read_error |-> FALSE,
              failed_tests |-> sections.failed_tests,
              timeout_tests |-> sections.timeout_tests,
              mode |-> first_mode(file.content)]

\* ------------------------------------------------------------------------
\* A batch, its log and the parse of that log, as functions of what the
\* batch records.
\* ------------------------------------------------------------------------

\* The entries the loop can append for an identifier.
ResultEntries == {loop_result(n, run_test(o)) : n \in Ids, o \in Invocations}

\* What one turn of the loop leaves: the entry, and the captured output.
Records == [entry : ResultEntries, out : CapturedOutputs]

\* The batches: a mode, and up to MaxLen turns of the loop.
Batches ==
    [mode : Modes, recs : UNION {[1..n -> Records] : n \in 0..MaxLen}]

RECURSIVE batch_blocks(_)
batch_blocks(recs) ==
    IF recs = <<>> THEN <<>>
    ELSE test_block(recs[1].entry.name, recs[1].out) \o batch_blocks(Tail(recs))

entries_of(recs) == [k \in 1..Len(recs) |-> recs[k].entry]

\* The log of a run of main that went through its batch.
run_log(mode, recs) ==
    header_lines \o mode_lines(mode) \o count_lines \o batch_blocks(recs)
        \o summary_lines(entries_of(recs))

LogInit ==
    /\ Fresh
    /\ inv \in Batches
    /\ res = NoRes

\* The run: the log is written, the batch returns its status.
WriteLog ==
    /\ pc = "idle"
    /\ pc' = "done"
    /\ results' = entries_of(inv.recs)
    /\ summary' = summary_of(entries_of(inv.recs))
    /\ exit_code' = batch_status(entries_of(inv.recs))
    /\ log' = run_log(inv.mode, inv.recs)
    /\ UNCHANGED <<args, test_names, start_index, i, child, cpFile, wrote, rm,
                   prev, inv, res, by_id>>

\* A later run with --rerun-failed parses that log.
ParseLog ==
    /\ pc = "done"
    /\ res = NoRes
    /\ res' = parse_log_for_rerun(File(log))
    /\ UNCHANGED <<pc, args, test_names, start_index, i, results, child,
                   cpFile, wrote, rm, summary, exit_code, prev, inv, logvars>>

LogNext == WriteLog \/ ParseLog

LogSpec == LogInit /\ [][LogNext]_vars

\* The states that count against the status of a batch.
Bad(r) == r.state \in {STATE_ERROR, STATE_FAILED, STATE_TIMEDOUT}

\* C15 (LogSpec). Batch status: _run_test_batch returns 0 if and only if no
\* recorded entry has state error, failed or timedout; skipped entries
\* leave it 0, and so does a batch with no entry.
C15_BatchStatus ==
    pc = "done" =>
        /\ exit_code \in {0, 1}
        /\ exit_code = 0 <=> \A k \in 1..Len(results) : ~Bad(results[k])
        /\ (\A k \in 1..Len(results) : results[k].state = STATE_SKIPPED)
              => exit_code = 0

\* A batch of a passed and a skipped entry that has returned 0.
C15_Witness ==
    /\ pc = "done"
    /\ Len(results) = 2
    /\ results[1].state = STATE_PASSED
    /\ results[2].state = STATE_SKIPPED
    /\ exit_code = 0

\* C11 (LogSpec). Log round-trip: parse_log_for_rerun, applied to the log a
\* run wrote, returns as failed the identifiers of the entries of state
\* failed, in order, as timed out those of the entries of state timedout, in
\* order, and as mode the mode of the header.
C11_LogRoundTrip ==
    res # NoRes =>
        /\ ~res.read_error
        /\ res.failed_tests = names_of(in_state(results, STATE_FAILED))
        /\ res.timeout_tests = names_of(in_state(results, STATE_TIMEDOUT))
        /\ res.mode = inv.mode

\* ------------------------------------------------------------------------
\* main: the command line and the rerun path.
\* ------------------------------------------------------------------------

\* The command line, as main reads it.  sel holds the source modes selected
\* (csv_file, --all-tests, --rerun-failed); parse_ok is whether
\* parser.parse_args() accepts the command line (--pytorch-path is there,
\* --per-test-timeout is an integer); env_ok is whether the checks of lines
\* 635-660 pass (-i only with --all-tests, the paths exist); regex is
\* --regex: not given, a valid pattern, or one re.compile rejects.  An
\* option no line of the run reads is taken as not given:
\* --rerun-include-timeouts is read on the rerun path only (lines 703-717),
\* --resume by _resolve_start_index only, which the rerun path does not call.
CommandLines ==
    {c \in [sel : SUBSET Sources, parse_ok : BOOLEAN, env_ok : BOOLEAN,
            regex : {None, "valid", "invalid"},
            rerun_include_timeouts : BOOLEAN, resume : BOOLEAN,
            no_checkpoint : BOOLEAN, stop_on_failure : BOOLEAN] :
        /\ c.rerun_include_timeouts => "rerun" \in c.sel
        /\ c.resume => c.sel # {"rerun"}}

\* Where main has left: the sys.exit it went through.
ExitPoints ==
    {"exit_usage", "exit_validation", "exit_setup", "exit_rerun_input",
     "exit_nothing_to_rerun", "exit_no_tests", "exit_bad_regex",
     "exit_no_match", "exit_csv", "exit_batch"}

Exited == pc \in ExitPoints

\* The file --rerun-failed names: the log of an earlier run that went through
\* its batch ("run"), such a log without its Mode line, as a file that does
\* not come from this script ("no_mode"), or a path that cannot be read.
PriorRuns ==
    {b \in Batches : names_of(entries_of(b.recs)) \in TestLists \cup {<<>>}}

Priors ==
    {[tag |-> t, mode |-> b.mode, recs |-> b.recs] :
        t \in {"run", "no_mode"}, b \in PriorRuns}
    \cup {[tag |-> "unreadable", mode |-> "csv", recs |-> <<>>]}

without_mode(content) == SelectSeq(content, LAMBDA line : ~MODE_LINE_RE(line))

prior_file(prior) ==
    IF prior.tag = "unreadable" THEN Unreadable
    ELSE IF prior.tag = "no_mode"
    THEN File(without_mode(run_log(prior.mode, prior.recs)))
    ELSE File(run_log(prior.mode, prior.recs))

\* Lines 696-701 leaving a log without mode tag to the batch.
rerun_input_error_unreadable_only(r) == r.read_error

\* Lines 696-701: the two conditions under which the rerun path gives up.
rerun_input_error(r) == r.read_error \/ r.mode = None

\* Lines 702-704: tests_to_rerun.
tests_to_rerun(r, rerun_include_timeouts) ==
    IF rerun_include_timeouts THEN r.failed_tests \o r.timeout_tests
    ELSE r.failed_tests

\* Line 725 with the shapes exchanged.
rerun_by_id_csv(mode) == mode = "csv"

\* Line 725: by_id=(mode == 'full_suite').
rerun_by_id(mode) == mode = "full_suite"

\* Lines 696-727, up to the first turn of the loop of _run_test_batch: the
\* rerun path of main, for what parse_log_for_rerun has returned.  installed
\* is the outcome of ensure_pytest_and_timeout_installed.
RerunParsed(r) ==
    /\ pc = "opened"
    /\ args.sel = {"rerun"}
    /\ LET tests == tests_to_rerun(r, args.rerun_include_timeouts)
       IN  IF rerun_input_error(r)
           THEN /\ pc' = "exit_rerun_input"
                /\ exit_code' = 1
                /\ UNCHANGED <<test_names, log, by_id>>
           ELSE IF tests = <<>>
           THEN /\ pc' = "exit_nothing_to_rerun"
                /\ exit_code' = 0
                /\ log' = log \o <<Text>>
                /\ UNCHANGED <<test_names, by_id>>
           ELSE \E installed \in BOOLEAN :
                IF ~installed
                THEN /\ pc' = "exit_setup"
                     /\ exit_code' = 1
                     /\ UNCHANGED <<test_names, log, by_id>>
                ELSE /\ pc' = "batch"
                     /\ exit_code' = exit_code
                     /\ test_names' = tests
                     /\ by_id' = rerun_by_id(r.mode)
                     /\ log' = log \o mode_lines(r.mode) \o count_lines
    /\ UNCHANGED <<args, start_index, i, results, child, cpFile, wrote, rm,
                   summary, prev, inv, res>>

\* Lines 693-727: the rerun path of main, for the file --rerun-failed names.
RerunFromLog(prior) == RerunParsed(parse_log_for_rerun(prior_file(prior)))

\* Lines 476-555: one turn of the loop of _run_test_batch; after the last
\* turn, or a turn that stops the loop, the summary is written, the batch
\* returns its status and main exits with it (lines 816-819).  The entry is
\* any run_test can return for the identifier; the captured output matches
\* no pattern of the log parser; write_checkpoint succeeds.
BatchTurn ==
    /\ pc = "batch"
    /\ \E e \in {r \in ResultEntries : r.name = At(test_names, i)} :
        LET rs == Append(results, e)
            block == test_block(e.name, "plain")
            more == ~stops(e, args.stop_on_failure) /\ i + 1 < Len(test_names)
        IN  /\ results' = rs
            /\ cpFile' = IF args.no_checkpoint THEN cpFile
                         ELSE Json(checkpoint_data(e.name,
                                                   next_test_of(test_names, i),
                                                   i, Len(test_names)))
            /\ IF more
               THEN /\ pc' = "batch"
                    /\ i' = i + 1
                    /\ log' = log \o block
                    /\ UNCHANGED <<summary, exit_code>>
               ELSE /\ pc' = "exit_batch"
                    /\ i' = i
                    /\ log' = log \o block
                               \o (IF stops(e, args.stop_on_failure)
                                   THEN stop_lines ELSE <<>>)
                               \o summary_lines(rs)
                    /\ summary' = summary_of(rs)
                    /\ exit_code' = batch_status(rs)
    /\ inv' = NoInv
    /\ UNCHANGED <<args, test_names, start_index, child, wrote, rm, prev,
                   res, by_id>>

\* The checkpoint file a csv run of the list a, b leaves when it is killed
\* after its first test, and the log of that run.
PartialCheckpoint == Json(checkpoint_data("a", "b", 0, 2))

PartialLog ==
    header_lines \o mode_lines("csv") \o count_lines \o test_block("a", "plain")

\* main in rerun mode, the log opened and its header written (line 689), for
\* every file --rerun-failed can name.
RerunInit ==
    /\ pc = "opened"
    /\ args \in {c \in CommandLines :
                    /\ c.sel = {"rerun"} /\ c.parse_ok /\ c.env_ok
                    /\ c.regex = None /\ ~c.resume
                    /\ ~c.no_checkpoint /\ ~c.stop_on_failure}
    /\ inv \in Priors
    /\ log = header_lines
    /\ cpFile = PartialCheckpoint
    /\ test_names = <<>>
    /\ start_index = 0
    /\ i = 0
    /\ results = <<>>
    /\ child = None
    /\ wrote = None
    /\ rm = None
    /\ summary = NoSummary
    /\ exit_code = 1
    /\ prev = NoPrev
    /\ res = NoRes
    /\ by_id = None

\* The batch of a rerun is followed for lists of up to MaxLen identifiers.
RerunNext == RerunFromLog(inv) \/ (Len(test_names) <= MaxLen /\ BatchTurn)

RerunSpec == RerunInit /\ [][RerunNext]_vars

\* The names of the entries of the given state the prior run recorded.
recorded(prior, state) == names_of(in_state(entries_of(prior.recs), state))

\* C12 (RerunSpec). Rerun work list: the list the rerun hands to the batch
\* is the identifiers the prior run recorded as failed, in order, followed,
\* when --rerun-include-timeouts is given, by those it recorded as timed
\* out; with no such identifier there is nothing to rerun.
C12_RerunWorkList ==
    (inv # NoInv /\ inv.tag = "run" /\ pc \in {"batch", "exit_nothing_to_rerun"})
        => test_names = recorded(inv, STATE_FAILED)
                \o (IF args.rerun_include_timeouts
                    THEN recorded(inv, STATE_TIMEDOUT) ELSE <<>>)

C14_RerunInputError ==
    /\ [][(pc = "opened" /\ inv.tag \in {"unreadable", "no_mode"})
            => /\ pc' = "exit_rerun_input"
               /\ exit_code' = 1
               /\ UNCHANGED <<results, cpFile>>]_vars
    /\ [](pc = "exit_rerun_input"
            => (results = <<>> /\ cpFile = PartialCheckpoint /\ ~ENABLED RerunNext))

\* A rerun that gave up on a file without Mode line that lists a failed
\* identifier.
C14_Witness ==
    /\ pc = "exit_rerun_input"
    /\ inv.tag = "no_mode"
    /\ recorded(inv, STATE_FAILED) # <<>>
    /\ exit_code = 1
    /\ results = <<>>

\* ------------------------------------------------------------------------
\* main, from the command line to sys.exit.
\* ------------------------------------------------------------------------

\* Lines 663-669 letting more than one source mode through.
modes_set_any(c) == IF c.sel = {} THEN 0 ELSE 1

\* Line 663: modes_set.
modes_set(c) == Cardinality(c.sel)

\* open(args.log_file, 'w'), line 682: the content of the file after it.
open_w(content) == <<>>

\* Lines 633-691: the command line is parsed and checked, the log file is
\* opened and the header written.  parse_args() leaves with status 2 on a
\* command line it rejects; the checks of lines 635-669 leave with status 1.
StartMain(c) ==
    /\ pc = "idle"
    /\ args' = c
    /\ IF ~c.parse_ok
       THEN /\ pc' = "exit_usage"
            /\ exit_code' = 2
            /\ log' = log
       ELSE IF ~c.env_ok \/ modes_set(c) = 0 \/ modes_set(c) > 1
       THEN /\ pc' = "exit_validation"
            /\ exit_code' = 1
            /\ log' = log
       ELSE /\ pc' = "opened"
            /\ exit_code' = 1
            /\ log' = open_w(log) \o header_lines
    /\ UNCHANGED <<test_names, start_index, i, results, child, cpFile, wrote,
                   rm, summary, prev, inv, res, by_id>>

\* What parse_log_for_rerun can return.
NameLists == UNION {[1..n -> Ids] : n \in 0..MaxLen}

ParseResults ==
    {parse_log_for_rerun(Unreadable)}
    \cup {[read_error |-> FALSE, failed_tests |-> f, timeout_tests |-> t,
           mode |-> m] :
            f \in NameLists, t \in NameLists, m \in Modes \cup {None}}

\* The rerun path, for every file --rerun-failed can name that lists up to
\* MaxLen identifiers.
MainRerun ==
    \E r \in ParseResults :
        /\ Len(r.failed_tests) + Len(r.timeout_tests) <= MaxLen
        /\ RerunParsed(r)

\* What discover_tests returns: the node ids collected, or [] after a
\* message in the log when the command fails, times out or raises.
Discoveries ==
    {[ok |-> FALSE, names |-> <<>>]}
    \cup {[ok |-> TRUE, names |-> n] : n \in {<<>>} \cup TestLists}

\* Lines 740-744 leaving with status 0.
no_tests_exit_code_zero(code) == 0

\* Lines 740-744: with no test discovered exit_code is left as it is.
no_tests_exit_code(code) == code

\* Lines 748-755 with every pattern taken as valid.
re_compile_fails_never(regex) == FALSE

\* Lines 748-755: re.compile(args.regex) raises re.error.
re_compile_fails(regex) == regex = "invalid"

\* Line 757 keeping the names the pattern is not found in.
filtered_out(names, matched) == SelectSeq(names, LAMBDA n : n \notin matched)

\* Line 757: [n for n in test_names if pattern.search(n)].  matched is the
\* set of the names in which the pattern is found.
filtered(names, matched) == SelectSeq(names, LAMBDA n : n \in matched)

\* Lines 728-789, up to the call of _resolve_start_index: the full-suite
\* path.  matched is the set of the names in which the pattern is found.
Discover ==
    /\ pc = "opened"
    /\ args.sel = {"all_tests"}
    /\ \E installed \in BOOLEAN, d \in Discoveries :
        LET names == d.names
            log1 == log \o mode_lines("full_suite")
                        \o (IF d.ok THEN <<>> ELSE <<Text>>)
        IN  IF ~installed
            THEN /\ pc' = "exit_setup"
                 /\ UNCHANGED <<exit_code, test_names, log, by_id>>
            ELSE IF names = <<>>
            THEN /\ pc' = "exit_no_tests"
                 /\ log' = log1 \o <<Text>>
                 /\ exit_code' = no_tests_exit_code(exit_code)
                 /\ UNCHANGED <<test_names, by_id>>
            ELSE IF args.regex # None /\ re_compile_fails(args.regex)
            THEN /\ pc' = "exit_bad_regex"
                 /\ exit_code' = 1
                 /\ log' = log1 \o <<Text>>
                 /\ UNCHANGED <<test_names, by_id>>
            ELSE IF args.regex # None
            THEN \E matched \in SUBSET Ids :
                    IF filtered(names, matched) = <<>>
                    THEN /\ pc' = "exit_no_match"
                         /\ exit_code' = 0
                         /\ log' = log1 \o <<Text, Text>>
                         /\ UNCHANGED <<test_names, by_id>>
                    ELSE /\ pc' = "resolve"
                         /\ test_names' = filtered(names, matched)
                         /\ by_id' = TRUE
                         /\ log' = log1 \o <<Text>>
                         /\ exit_code' = exit_code
            ELSE /\ pc' = "resolve"
                 /\ test_names' = names
                 /\ by_id' = TRUE
                 /\ log' = log1
                 /\ exit_code' = exit_code
    /\ UNCHANGED <<args, start_index, i, results, child, cpFile, wrote, rm,
                   summary, prev, inv, res>>

\* What read_tests_from_csv does: it returns the names, possibly none, or
\* leaves through sys.exit(1) on a file it cannot read.
CsvFiles ==
    {[ok |-> FALSE, names |-> <<>>]}
    \cup {[ok |-> TRUE, names |-> n] : n \in {<<>>} \cup TestLists}

\* Lines 790-805, up to the call of _resolve_start_index: the csv path.
ReadCsv ==
    /\ pc = "opened"
    /\ args.sel = {"csv"}
    /\ \E installed \in BOOLEAN, f \in CsvFiles :
        IF ~installed
        THEN /\ pc' = "exit_setup"
             /\ UNCHANGED <<exit_code, test_names, log, by_id>>
        ELSE IF ~f.ok
        THEN /\ pc' = "exit_csv"
             /\ exit_code' = 1
             /\ log' = log \o mode_lines("csv")
             /\ UNCHANGED <<test_names, by_id>>
        ELSE IF f.names = <<>>
        THEN /\ pc' = "exit_csv"
             /\ exit_code' = 1
             /\ log' = log \o mode_lines("csv") \o <<Text>>
             /\ UNCHANGED <<test_names, by_id>>
        ELSE /\ pc' = "resolve"
             /\ test_names' = f.names
             /\ by_id' = FALSE
             /\ log' = log \o mode_lines("csv")
             /\ exit_code' = exit_code
    /\ UNCHANGED <<args, start_index, i, results, child, cpFile, wrote, rm,
                   summary, prev, inv, res>>

\* The message _resolve_start_index writes to the log, lines 424-452.
resolve_lines(cp, resume, no_checkpoint) ==
    IF resume \/ (~no_checkpoint /\ cp # NoneDict) THEN <<Text>> ELSE <<>>

\* _resolve_start_index, lines 417-463, and the head of _run_test_batch,
\* lines 471-476.
MainResolve ==
    /\ pc = "resolve"
    /\ \E ok1, ok2 \in BOOLEAN :
        LET cp == read_checkpoint(cpFile)
            start == resolve_start_index(test_names, cp, args.resume)
        IN  /\ start_index' = start
            /\ i' = start
            /\ cpFile' = resolve_checkpoint_file(cpFile, args.resume,
                                                 args.no_checkpoint, start,
                                                 ok1, ok2)
            /\ log' = log \o resolve_lines(cp, args.resume, args.no_checkpoint)
                          \o count_lines
    /\ pc' = "batch"
    /\ UNCHANGED <<args, test_names, results, child, wrote, rm, summary,
                   exit_code, prev, inv, res, by_id>>

\* Before a run: nothing at the log path, or the log and the checkpoint
\* file of an earlier run that was killed after its first test.
MainInit ==
    /\ pc = "idle"
    /\ args = NoArgs
    /\ \/ log = <<>> /\ cpFile = Absent
       \/ log = PartialLog /\ cpFile = PartialCheckpoint
    /\ test_names = <<>>
    /\ start_index = 0
    /\ i = 0
    /\ results = <<>>
    /\ child = None
    /\ wrote = None
    /\ rm = None
    /\ summary = NoSummary
    /\ exit_code = 1
    /\ prev = NoPrev
    /\ inv = NoInv
    /\ res = NoRes
    /\ by_id = None

MainNext ==
    \/ \E c \in CommandLines : StartMain(c)
    \/ MainRerun
    \/ Discover
    \/ ReadCsv
    \/ MainResolve
    \/ BatchTurn

MainSpec == MainInit /\ [][MainNext]_vars

\* A batch ran and its summary reports no error, failed or timed out test.
CleanBatch ==
    /\ pc = "exit_batch"
    /\ summary.error = 0
    /\ summary.failed = 0
    /\ summary.timedout = 0

C17_EmptyDiscovery ==
    pc = "exit_no_tests" =>
        /\ results = <<>>
        /\ Last(log) = Text
        /\ exit_code = 0

OnPathOf(sel) ==
    /\ pc \in {"exit_rerun_input", "exit_nothing_to_rerun"} => sel = {"rerun"}
    /\ pc \in {"exit_no_tests", "exit_bad_regex", "exit_no_match"}
          => sel = {"all_tests"}
    /\ pc = "exit_csv" => sel = {"csv"}
    /\ pc = "resolve" => sel \in {{"csv"}, {"all_tests"}}
    /\ pc \in {"resolve", "batch", "exit_batch"} =>
          /\ sel = {"csv"} => (by_id = FALSE /\ first_mode(log) = "csv")
          /\ sel = {"all_tests"}
                => (by_id = TRUE /\ first_mode(log) = "full_suite")
          /\ sel = {"rerun"}
                => (by_id = (first_mode(log) = "full_suite") /\ start_index = 0)

IsPrefix(s, t) == Len(s) <= Len(t) /\ SubSeq(t, 1, Len(s)) = s

\* C20 (MainSpec). Append-only log: no step of a run with --resume takes
\* anything away from the log: what an earlier, partial run wrote to the log
\* path is still there when the resumed run has started and when it has
\* finished.
C20_AppendOnlyLog == [][args'.resume => IsPrefix(log, log')]_vars

\* ------------------------------------------------------------------------
\* Properties of the batch loop, the log and the discovery parser.
\* ------------------------------------------------------------------------

\* C21 (Spec). Checkpoint writes are best-effort: a checkpoint write that
\* raises OSError, at open or at json.dump, after any test, leaves the
\* results and the loop index as they are and the loop at its stop check;
\* and the step the loop takes from there, the next test or the summary and
\* the status, is the one the results, the index and stop-on-failure
\* determine, whatever became of the write.
C21_BestEffortCheckpoint ==
    /\ [](wrote = "oserror" => (pc = "stop_check" /\ ENABLED StopCheck))
    /\ [][(pc = "running" /\ wrote' = "oserror")
            => (Len(results') = Len(results) + 1 /\ i' = i /\ cpFile' = cpFile)]_vars
    /\ [][(pc = "dump_cp" /\ wrote' = "oserror")
            => (results' = results /\ i' = i)]_vars
    /\ [][(pc = "stop_check" /\ pc' # "idle")
            => /\ results' = results
               /\ IF ~stops(Last(results), args.stop_on_failure)
                     /\ i + 1 < Len(test_names)
                  THEN pc' = "invoke" /\ i' = i + 1
                  ELSE /\ pc' = "done"
                       /\ summary' = summary_of(results)
                       /\ exit_code' = batch_status(results)]_vars

\* The checkpoint write after the second test of a batch has raised OSError
\* and the loop goes on.
C21_Witness ==
    /\ pc = "stop_check"
    /\ wrote = "oserror"
    /\ Len(results) = 2
    /\ i + 1 = Len(results) + start_index

\* ------------------------------------------------------------------------
\* Discovery: the output of pytest --collect-only -q, its parse and the
\* --regex filter, as functions of the output and the pattern.
\* ------------------------------------------------------------------------

\* A line of text is the sequence of its tokens: a word, one or more of the
\* characters [\w/.-], or one of the other tokens below.
W(s) == [t |-> "w", s |-> s]

Colons == [t |-> "::"]

Space == [t |-> " "]

LParen == [t |-> "("]

RParen == [t |-> ")"]

LAngle == [t |-> "<"]

RAngle == [t |-> ">"]

\* A fully-qualified node reference: <file>::<test>.
NodeRef(file, test) == <<W(file), Colons, W(test)>>

NodeRefs == {NodeRef("a", "t1"), NodeRef("b", "t2")}

\* A human-readable line holding a node reference between parentheses.
HumanLine(ref) == <<W("name"), Space, LParen>> \o ref \o <<RParen>>

\* The lines of the output of the discovery command, after strip(): node
\* references, human-readable lines, the repr of a container, the summary
\* lines "collected N items" and "Running N items in this shard", and the
\* empty line.
DiscoveryLines ==
    NodeRefs
    \cup {HumanLine(ref) : ref \in NodeRefs}
    \cup {<<LAngle, W("Module"), Space, W("a"), RAngle>>,
          <<W("collected"), Space, W("2"), Space, W("items")>>,
          <<W("Running"), Space, W("2"), Space, W("items")>>,
          <<>>}

\* Line 204: _NODE_ID_LINE_RE, ^[\w/.-]+::.+$
NODE_ID_LINE_RE(line) ==
    Len(line) >= 3 /\ line[1].t = "w" /\ line[2].t = "::"

\* Line 220: s.lower().startswith('collected ') or the same with 'running '.
summary_line(line) ==
    /\ Len(line) >= 2
    /\ line[1] \in {W("collected"), W("Running")}
    /\ line[2] = Space

\* _parse_pytest_collect_only_quiet, lines 207-224.
RECURSIVE parse_pytest_collect_only_quiet(_)
parse_pytest_collect_only_quiet(lines) ==
    IF lines = <<>> THEN <<>>
    ELSE LET s == lines[1]
             rest == parse_pytest_collect_only_quiet(Tail(lines))
         IN  IF s = <<>> THEN rest
             ELSE IF summary_line(s) THEN rest
             ELSE IF NODE_ID_LINE_RE(s) THEN <<s>> \o rest
             ELSE rest

\* pattern.search(name) for a pattern that is a literal text: the pattern
\* is found somewhere in the name.
pattern_search(pattern, name) ==
    \E k \in 1..(Len(name) - Len(pattern) + 1) :
        SubSeq(name, k, k + Len(pattern) - 1) = pattern

Patterns == {<<W("a"), Colons>>, <<Colons>>, <<W("t2")>>, <<W("zzz")>>}

\* An output of up to MaxLen lines and a --regex pattern.
DiscoveryInputs ==
    [lines : UNION {[1..n -> DiscoveryLines] : n \in 0..MaxLen},
     pattern : Patterns]

NoParse == [ids |-> <<>>, stage |-> "none"]

DiscoveryInit ==
    /\ Fresh
    /\ inv \in DiscoveryInputs
    /\ res = NoParse

\* discover_tests, lines 267-269: the output is parsed.
ParseCollected ==
    /\ res.stage = "none"
    /\ res' = [ids |-> parse_pytest_collect_only_quiet(inv.lines),
               stage |-> "parsed"]
    /\ UNCHANGED <<pc, args, test_names, start_index, i, results, child,
                   cpFile, wrote, rm, summary, exit_code, prev, inv, logvars>>

\* main, lines 747-757: the filter is applied to what discovery returned.
ApplyFilter ==
    /\ res.stage = "parsed"
    /\ res.ids # <<>>
    /\ test_names' = filtered(res.ids, {n \in NodeRefs \cup DiscoveryLines :
                                            pattern_search(inv.pattern, n)})
    /\ res' = [res EXCEPT !.stage = "filtered"]
    /\ UNCHANGED <<pc, args, start_index, i, results, child, cpFile, wrote,
                   rm, summary, exit_code, prev, inv, logvars>>

DiscoveryNext == ParseCollected \/ ApplyFilter

DiscoverySpec == DiscoveryInit /\ [][DiscoveryNext]_vars

\* The positions of seq whose element the pattern is found in.
Found(pattern, seq) == {j \in 1..Len(seq) : pattern_search(pattern, seq[j])}

\* The k-th smallest element of a set of numbers.
Nth(S, k) == CHOOSE j \in S : Cardinality({x \in S : x < j}) = k - 1

\* C22 (DiscoverySpec). Discovery filter: the filtered sequence holds, for
\* each position of the discovered sequence whose identifier the pattern is
\* found in, that identifier, unaltered, in the order of the positions, and
\* nothing else.
C22_DiscoveryFilter ==
    res.stage = "filtered" =>
        LET pos == Found(inv.pattern, res.ids)
        IN  /\ Len(test_names) = Cardinality(pos)
            /\ \A k \in 1..Len(test_names) :
                  test_names[k] = res.ids[Nth(pos, k)]

\* The filter a:: has dropped b::t2 and kept a::t1.
C22_Witness ==
    /\ res.stage = "filtered"
    /\ inv.pattern = <<W("a"), Colons>>
    /\ res.ids = <<NodeRef("b", "t2"), NodeRef("a", "t1")>>
    /\ test_names = <<NodeRef("a", "t1")>>

\* What the parser is to yield for a line: the line itself for a node
\* reference, the part between the parentheses for a human-readable line
\* that holds one, nothing for any other line.
yields(line) ==
    IF line \in NodeRefs THEN <<line>>
    ELSE IF \E ref \in NodeRefs : line = HumanLine(ref)
    THEN <<CHOOSE ref \in NodeRefs : line = HumanLine(ref)>>
    ELSE <<>>

RECURSIVE yields_all(_)
yields_all(lines) ==
    IF lines = <<>> THEN <<>> ELSE yields(lines[1]) \o yields_all(Tail(lines))

\* C23 (DiscoverySpec). Discovery line shapes: the parser returns, in the
\* order of the output, the line itself for each line that is a node
\* reference, the node reference between the parentheses for each
\* human-readable line that holds one, and nothing for the other lines.
C23_DiscoveryLineShapes ==
    res.stage = "parsed" => res.ids = yields_all(inv.lines)

\* The steps of one index, in the order of the loop body: the invocation
\* returns and its entry is appended, then the checkpoint is written, then
\* comes the stop check; the next test starts from the stop check only, and
\* after a write that did not fail the checkpoint is the one of the index
\* just processed, also when stop-on-failure ends the loop there.
StepOrder ==
    /\ [][(pc = "running" /\ pc' \notin {"running", "idle"})
            => /\ results' = Append(results, Last(results'))
               /\ Last(results').name = At(test_names, i)
               /\ i' = i
               /\ pc' \in {"dump_cp", "stop_check"}]_vars
    /\ [][(pc' = "invoke" /\ pc \notin {"idle", "resolve"})
            => /\ pc = "stop_check"
               /\ i' = i + 1
               /\ wrote = "ok" => cpFile = WrittenAfter(test_names, i)]_vars
    /\ [][(pc = "stop_check" /\ pc' = "done" /\ wrote = "ok"
             /\ i + 1 < Len(test_names))
            => /\ stops(Last(results), args.stop_on_failure)
               /\ cpFile' = WrittenAfter(test_names, i)
               /\ read_checkpoint(cpFile').next_test = At(test_names, i + 1)]_vars

\* C24 (Spec). Step order within one index: the loop invokes the test,
\* appends its result, writes the checkpoint (last = i, next = i+1 or null)
\* and only then checks stop-on-failure, so that test i+1 never starts
\* before the checkpoint write for i; and a run with resume=true that finds
\* the checkpoint written after index i < N-1, as a stop-on-failure at i
\* leaves it, starts after i: it does not execute the test at index i again.
C24_StepOrder ==
    /\ StepOrder
    /\ [][\A k \in 0..(Len(test_names) - 2) :
            (Resolved /\ args.resume /\ cpFile = WrittenAfter(test_names, k))
                => start_index' > k]_vars

\* ------------------------------------------------------------------------
\* One batch, statement by statement: what run_test and the body of the
\* batch loop write to the log, and when.
\* ------------------------------------------------------------------------

\* A line of captured output of the child, from its stdout or its stderr.
OutLine(stream) == [k |-> "out", stream |-> stream]

\* A status line: its state word, and what follows the word:
\*   "seconds"            <glyph> <WORD> (<seconds>s)              line 166
\*   "after_limit"        <glyph> <WORD> after <s>s (limit: <n>s)  line 175
\*   "message"            <glyph> <WORD>: <message>                line 195
\*   "uncaught_after"     <glyph> <WORD> (uncaught in run_test) after <s>s
\*                                                                 line 495
\*   "uncaught_message"   <glyph> <WORD> (uncaught): <type>: <message>
\*                                                                 line 502
StatusLine(word, form) == [k |-> "status", word |-> word, form |-> form]

\* status_map with the failed state under the word of the error state.
status_map_failed_as_error(state) ==
    CASE state = STATE_PASSED -> "PASSED"
      [] state = STATE_SKIPPED -> "SKIPPED"
      [] state = STATE_ERROR -> "ERROR"
      [] state = STATE_FAILED -> "ERROR"
      [] state = STATE_TIMEDOUT -> "TIMEDOUT"

\* status_map, lines 158-164, without the glyphs.
status_map(state) ==
    CASE state = STATE_PASSED -> "PASSED"
      [] state = STATE_SKIPPED -> "SKIPPED"
      [] state = STATE_ERROR -> "ERROR"
      [] state = STATE_FAILED -> "FAILED"
      [] state = STATE_TIMEDOUT -> "TIMEDOUT"

\* The captured output with result.stderr left out.
captured_lines_stdout_only(c) ==
    IF c.stdout THEN <<OutLine("stdout")>> ELSE <<>>

\* Lines 151-154 (and 181-186): stdout, if not empty, then stderr, if not
\* empty.
captured_lines(c) ==
    (IF c.stdout THEN <<OutLine("stdout")>> ELSE <<>>)
        \o (IF c.stderr THEN <<OutLine("stderr")>> ELSE <<>>)

\* The output signatures told apart here: one for each classifier.
BlockOutputs == {{}, {"Timeout"}, {"RuntimeError"}, {" SKIPPED"}}

\* What an invocation can do under run_kw (no timeout=): the child exits, or
\* it cannot be launched; or an exception leaves run_test (a write to the
\* log raises).  A child that exits has printed to stdout, to stderr, to
\* both or to none; a signature is found in what it printed.
BlockInvocations ==
    {[o |-> o, stdout |-> so, stderr |-> se] :
        o \in {x \in UNION {subprocess_run(b, run_kw_timeout) : b \in Behaviours} :
                  x.kind = "completed" => x.out \in BlockOutputs}
              \cup {Raised("escape_Exception")},
        so \in BOOLEAN, se \in BOOLEAN}

\* The invocations: no output with a child that did not run, no signature
\* without output.
CanHappen(c) ==
    IF c.o.kind = "completed"
    THEN c.o.out # {} => (c.stdout \/ c.stderr)
    ELSE ~c.stdout /\ ~c.stderr

NoCall == [o |-> NoInv, stdout |-> FALSE, stderr |-> FALSE]

\* The lists of a batch.
BlockLists == {<<"a">>, <<"a", "b">>}

BlockInit ==
    /\ pc = "progress"
    /\ args \in {[NoArgs EXCEPT !.no_checkpoint = nc, !.stop_on_failure = sf] :
                    nc \in BOOLEAN, sf \in BOOLEAN}
    /\ test_names \in BlockLists
    /\ start_index = 0
    /\ i = 0
    /\ results = <<>>
    /\ child = None
    /\ cpFile = Absent
    /\ wrote = None
    /\ rm = None
    /\ summary = NoSummary
    /\ exit_code = 1
    /\ prev = NoPrev
    /\ log = count_lines
    /\ by_id = None
    /\ inv = NoCall
    /\ res = NoRes

\* Lines 479-484: progress_msg.
WriteProgress ==
    /\ pc = "progress"
    /\ log' = Append(log, Text)
    /\ pc' = "header"
    /\ UNCHANGED <<args, test_names, start_index, i, results, child, cpFile,
                   wrote, rm, summary, exit_code, prev, inv, res, by_id>>

\* Lines 123-126: the header of run_test.
WriteHeader ==
    /\ pc = "header"
    /\ log' = log \o <<Sep, RunningLine(At(test_names, i)), Sep>>
    /\ pc' = "subprocess"
    /\ UNCHANGED <<args, test_names, start_index, i, results, child, cpFile,
                   wrote, rm, summary, exit_code, prev, inv, res, by_id>>

\* Line 133: subprocess.run returns a CompletedProcess or raises; lines
\* 135-148 touch locals only.  An exception no handler of run_test catches
\* leaves run_test.
SubprocessRun ==
    /\ pc = "subprocess"
    /\ \E c \in BlockInvocations :
        /\ CanHappen(c)
        /\ inv' = c
        /\ IF c.o.kind = "completed"
           THEN pc' = "write_output" /\ res' = res
           ELSE IF c.o.kind \in {"TimeoutExpired", "Exception"}
           THEN pc' = "except" /\ res' = res
           ELSE pc' = "loop_except" /\ res' = run_test(c.o)
    /\ UNCHANGED <<args, test_names, start_index, i, results, child, cpFile,
                   wrote, rm, summary, exit_code, prev, log, by_id>>

\* Lines 150-155: the captured output is written and flushed.
WriteOutput ==
    /\ pc = "write_output"
    /\ log' = log \o captured_lines(inv)
    /\ pc' = "write_status"
    /\ UNCHANGED <<args, test_names, start_index, i, results, child, cpFile,
                   wrote, rm, summary, exit_code, prev, inv, res, by_id>>

\* Lines 157-169: status_msg.
WriteStatus ==
    /\ pc = "write_status"
    /\ log' = Append(log, StatusLine(status_map(run_test(inv.o).state), "seconds"))
    /\ pc' = "return"
    /\ UNCHANGED <<args, test_names, start_index, i, results, child, cpFile,
                   wrote, rm, summary, exit_code, prev, inv, res, by_id>>

\* The handlers of run_test, lines 173-191 and 193-199: the message, and for
\* TimeoutExpired the output captured so far after it.
Except ==
    /\ pc = "except"
    /\ log' = IF inv.o.kind = "TimeoutExpired"
              THEN Append(log, StatusLine("TIMEOUT", "after_limit"))
                       \o captured_lines(inv)
              ELSE Append(log, StatusLine("ERROR", "message"))
    /\ pc' = "return"
    /\ UNCHANGED <<args, test_names, start_index, i, results, child, cpFile,
                   wrote, rm, summary, exit_code, prev, inv, res, by_id>>

\* Lines 171, 191, 199: run_test returns its tuple.
Return ==
    /\ pc = "return"
    /\ res' = run_test(inv.o)
    /\ pc' = "append"
    /\ UNCHANGED <<args, test_names, start_index, i, results, child, cpFile,
                   wrote, rm, summary, exit_code, prev, inv, log, by_id>>

\* The handlers of the batch loop, lines 493-506.
LoopExcept ==
    /\ pc = "loop_except"
    /\ log' = Append(log, IF res.raised = "TimeoutExpired"
                          THEN StatusLine("TIMEOUT", "uncaught_after")
                          ELSE StatusLine("ERROR", "uncaught_message"))
    /\ pc' = "append"
    /\ UNCHANGED <<args, test_names, start_index, i, results, child, cpFile,
                   wrote, rm, summary, exit_code, prev, inv, res, by_id>>

\* Lines 507-510.
AppendResult ==
    /\ pc = "append"
    /\ results' = Append(results, loop_result(At(test_names, i), res))
    /\ pc' = IF args.no_checkpoint THEN "stop_check" ELSE "checkpoint"
    /\ UNCHANGED <<args, test_names, start_index, i, child, cpFile, wrote, rm,
                   summary, exit_code, prev, inv, res, logvars>>

\* Lines 511-516: write_checkpoint writes the file, or is stopped by an
\* OSError before open or after it, which it swallows.
WriteCheckpoint ==
    /\ pc = "checkpoint"
    /\ \/ /\ cpFile' = Json(checkpoint_data(At(test_names, i),
                                            next_test_of(test_names, i), i,
                                            Len(test_names)))
          /\ wrote' = "ok"
       \/ /\ cpFile' \in {cpFile, Torn}
          /\ wrote' = "oserror"
    /\ pc' = "stop_check"
    /\ UNCHANGED <<args, test_names, start_index, i, results, child, rm,
                   summary, exit_code, prev, inv, res, logvars>>

\* Lines 517-522, then the next turn of the loop, or lines 524-555.
BlockStopCheck ==
    /\ pc = "stop_check"
    /\ LET stop == stops(Last(results), args.stop_on_failure)
       IN  IF ~stop /\ i + 1 < Len(test_names)
           THEN /\ pc' = "progress"
                /\ i' = i + 1
                /\ UNCHANGED <<summary, exit_code, log>>
           ELSE /\ pc' = "done"
                /\ i' = i
                /\ log' = log \o (IF stop THEN stop_lines ELSE <<>>)
                              \o summary_lines(results)
                /\ summary' = summary_of(results)
                /\ exit_code' = batch_status(results)
    /\ wrote' = None
    /\ UNCHANGED <<args, test_names, start_index, results, child, cpFile,
                   rm, prev, inv, res, by_id>>

\* The controller is killed: the files stay as they are.  prev keeps where
\* it was.
Crash ==
    /\ pc \notin {"done", "crashed"}
    /\ prev' = [at |-> pc]
    /\ pc' = "crashed"
    /\ UNCHANGED <<args, test_names, start_index, i, results, child, cpFile,
                   wrote, rm, summary, exit_code, inv, res, logvars>>

BlockNext ==
    \/ WriteProgress
    \/ WriteHeader
    \/ SubprocessRun
    \/ WriteOutput
    \/ WriteStatus
    \/ Except
    \/ Return
    \/ LoopExcept
    \/ AppendResult
    \/ WriteCheckpoint
    \/ BlockStopCheck
    \/ Crash

BlockSpec == BlockInit /\ [][BlockNext]_vars

\* The position in a log of its last "Running: <name>" line, 0 if none.
LastRunning(l) ==
    IF \E k \in 1..Len(l) : l[k].k = "running"
    THEN CHOOSE k \in 1..Len(l) :
            l[k].k = "running" /\ \A j \in (k + 1)..Len(l) : l[j].k # "running"
    ELSE 0

\* What a log holds after the header of its last per-test block.
current_block(l) == SubSeq(l, LastRunning(l) + 2, Len(l))

\* Where the controller is, or was when it was killed.
where == IF pc = "crashed" THEN prev.at ELSE pc

\* All that the child of the current invocation printed.
AllCaptured ==
    (IF inv.stdout THEN <<OutLine("stdout")>> ELSE <<>>)
        \o (IF inv.stderr THEN <<OutLine("stderr")>> ELSE <<>>)

\* C25 (BlockSpec). Log before result: once the child of an invocation has
\* exited, with a zero or a non-zero code, all its captured stdout and stderr
\* is in the log, at the head of the block of that test, before run_test
\* returns, hence before the result is appended and before the checkpoint
\* of that index is written; nothing is ever taken out of the log, and a
\* controller killed at any later point leaves the output there.
C25_LogBeforeResult ==
    /\ []((inv.o.kind = "completed"
            /\ where \in {"write_status", "return", "append", "checkpoint",
                          "stop_check"})
          => IsPrefix(AllCaptured, current_block(log)))
    /\ [][pc' = "append" /\ pc = "return"
            => (log' = log /\ results' = results /\ cpFile' = cpFile)]_vars
    /\ [][results' # results => (pc = "append" /\ log' = log)]_vars
    /\ [][cpFile' # cpFile => (pc = "checkpoint" /\ log' = log)]_vars
    /\ [][IsPrefix(log, log')]_vars

\* The controller was killed when about to write the checkpoint of the
\* second test, whose child had printed to stdout and to stderr and exited
\* with a non-zero code: both are in the log.
C25_Witness ==
    /\ pc = "crashed"
    /\ prev.at = "checkpoint"
    /\ i = 1
    /\ inv.o.kind = "completed"
    /\ inv.o.returncode = 1
    /\ inv.stdout /\ inv.stderr
    /\ SubSeq(current_block(log), 1, 2) = <<OutLine("stdout"), OutLine("stderr")>>

\* The outcome a state word names; the handlers write TIMEOUT for a timed
\* out test.
outcome_of(word) ==
    CASE word = "PASSED" -> STATE_PASSED
      [] word = "SKIPPED" -> STATE_SKIPPED
      [] word = "ERROR" -> STATE_ERROR
      [] word = "FAILED" -> STATE_FAILED
      [] word \in {"TIMEDOUT", "TIMEOUT"} -> STATE_TIMEDOUT

\* C29 (BlockSpec), as claimed. Status line agrees with the recorded
\* outcome: on every path, once the result of a test is recorded, the block
\* of the test in the log ends with a status line of the form
\* '<glyph> <STATE> (<seconds>s)' whose STATE is the recorded outcome.
C29_StatusLine_Claimed ==
    pc = "stop_check" =>
        /\ Last(log).k = "status"
        /\ Last(log).form = "seconds"
        /\ Last(log).word # "TIMEOUT"
        /\ outcome_of(Last(log).word) = Last(results).state

\* C29 (BlockSpec), amended. Once the result of a test is recorded, the
\* block of the test in the log ends with a status line whose state word
\* names the recorded outcome.  The line has the form
\* '<glyph> <STATE> (<seconds>s)' when the child exited; when the child
\* could not be launched it is '<glyph> ERROR: <message>', and when the
\* batch loop caught the exception it is
\* '<glyph> ERROR (uncaught): <type>: <message>', both without the seconds.
C29_StatusLine ==
    pc = "stop_check" =>
        /\ Last(log).k = "status"
        /\ outcome_of(Last(log).word) = Last(results).state
        /\ inv.o.kind = "completed"
              => (Last(log).form = "seconds" /\ Last(log).word # "TIMEOUT")
        /\ inv.o.kind = "Exception" => Last(log) = StatusLine("ERROR", "message")
        /\ inv.o.kind = "escape_Exception"
              => Last(log) = StatusLine("ERROR", "uncaught_message")

\* The child of the second test could not be launched: the entry recorded
\* has state error and the block ends with the ERROR line of the handler.
C29_Witness ==
    /\ pc = "stop_check"
    /\ i = 1
    /\ inv.o.kind = "Exception"
    /\ Last(results).state = STATE_ERROR
    /\ Last(log) = StatusLine("ERROR", "message")

\* ------------------------------------------------------------------------
\* Properties of a run from index 0 and of the progress of a batch.
\* ------------------------------------------------------------------------

InBatch == pc \in {"invoke", "running", "dump_cp", "stop_check"}

\* C27 (ProgressSpec). Sequential progress and termination: within a batch
\* the tests executed are those of the indices start_index, start_index+1,
\* ... up to the current one, each once and in this order; a child is in
\* flight only while the controller waits for it, one at a time; an entry
\* recorded is never changed nor removed; the summary is written once, by
\* the step that ends the loop; and a batch in which every child exits
\* reaches its summary, short of a termination from outside.
C27_SequentialProgress ==
    /\ [](InBatch =>
            /\ start_index <= i /\ i < Len(test_names)
            /\ Len(results) = (i - start_index)
                                + (IF pc \in {"dump_cp", "stop_check"} THEN 1 ELSE 0)
            /\ names_of(results)
                  = SubSeq(test_names, start_index + 1, start_index + Len(results)))
    /\ [](pc = "running" => (child # None /\ ~ENABLED Invoke))
    /\ [][(pc' = "running" /\ pc # "running") => pc = "invoke"]_vars
    /\ [][(InBatch /\ pc' # "idle")
            => /\ IsPrefix(results, results')
               /\ Len(results') <= Len(results) + 1
               /\ i' \in {i, i + 1}
               /\ start_index' = start_index
               /\ i' = i + 1 <=> pc' = "invoke"]_vars
    /\ [][summary' # summary
            => (pc' = "idle" \/ (pc = "stop_check" /\ pc' = "done"
                                   /\ summary = NoSummary
                                   /\ summary' = summary_of(results)))]_vars
    /\ [][(pc = "done" /\ pc' # "idle") => UNCHANGED vars]_vars
    /\ InBatch ~> (pc \in {"done", "idle"} \/ child = "hangs")

\* A batch that started at index 1 has reached its summary.
C27_Witness ==
    /\ pc = "done"
    /\ start_index = 1
    /\ Len(results) = 1
    /\ summary = summary_of(results)

\* ------------------------------------------------------------------------
\* Properties of the summary and of the parse of a log.
\* ------------------------------------------------------------------------

\* The place of a heading in the order Passed, Skipped, Error, Failed,
\* Timed out, and the state it stands for.
heading_rank(label) ==
    CASE label = "Passed" -> 1
      [] label = "Skipped" -> 2
      [] label = "Error" -> 3
      [] label = "Failed" -> 4
      [] label = "Timed out" -> 5

heading_state(label) ==
    CASE label = "Passed" -> STATE_PASSED
      [] label = "Skipped" -> STATE_SKIPPED
      [] label = "Error" -> STATE_ERROR
      [] label = "Failed" -> STATE_FAILED
      [] label = "Timed out" -> STATE_TIMEDOUT

\* The positions of the entries recorded with a state.
Bucket(state) == {k \in 1..Len(results) : results[k].state = state}

\* The names of the entries at the positions of a set, in the order of the
\* entries.
RECURSIVE NamesAt(_, _)
NamesAt(S, k) ==
    IF k > Len(results) THEN <<>>
    ELSE (IF k \in S THEN <<results[k].name>> ELSE <<>>) \o NamesAt(S, k + 1)

\* C28 (LogSpec). Summary partition: in the summary of a batch the five
\* counts are the sizes of the five buckets and sum to 'Total tests run',
\* the number of tests executed; every executed test is listed once, under
\* the heading of its recorded state; a heading stands there only if its
\* bucket is not empty, and then once; the headings come in the order
\* Passed, Skipped, Error, Failed, Timed out.
C28_SummaryPartition ==
    pc = "done" =>
        LET S == summary.sections
        IN  /\ summary.total = Len(results)
            /\ summary.passed + summary.skipped + summary.error
                  + summary.failed + summary.timedout = summary.total
            /\ summary.passed = Cardinality(Bucket(STATE_PASSED))
            /\ summary.skipped = Cardinality(Bucket(STATE_SKIPPED))
            /\ summary.error = Cardinality(Bucket(STATE_ERROR))
            /\ summary.failed = Cardinality(Bucket(STATE_FAILED))
            /\ summary.timedout = Cardinality(Bucket(STATE_TIMEDOUT))
            /\ \A k \in 1..Len(S) :
                  /\ S[k].names # <<>>
                  /\ S[k].names = NamesAt(Bucket(heading_state(S[k].label)), 1)
            /\ \A j, k \in 1..Len(S) :
                  j < k => heading_rank(S[j].label) < heading_rank(S[k].label)
            /\ \A k \in 1..Len(results) :
                  \E j \in 1..Len(S) : heading_state(S[j].label) = results[k].state

\* A batch of a failed and then a passed test: two headings, Passed first.
C28_Witness ==
    /\ pc = "done"
    /\ Len(results) = 2
    /\ results[1].state = STATE_FAILED
    /\ results[2].state = STATE_PASSED
    /\ Len(summary.sections) = 2
    /\ summary.sections[1].label = "Passed"
    /\ summary.sections[2].names = <<results[1].name>>

\* The identifiers the summary of the batch lists under a heading.
ListedUnder(label) ==
    {id \in Ids :
        \E k \in 1..Len(summary.sections) :
            /\ summary.sections[k].label = label
            /\ contains(summary.sections[k].names, id)}

\* C30 (LogSpec). Parser reads only the trailing summary: whatever the
\* tests printed, every identifier parse_log_for_rerun returns as failed is
\* listed under the Failed heading of the summary of the log, and every one
\* it returns as timed out under the Timed out heading; an identifier listed
\* under Passed, Skipped or Error only is never returned.
C30_TrailingSummaryOnly ==
    res # NoRes =>
        /\ \A k \in 1..Len(res.failed_tests) :
              res.failed_tests[k] \in ListedUnder("Failed")
        /\ \A k \in 1..Len(res.timeout_tests) :
              res.timeout_tests[k] \in ListedUnder("Timed out")

\* ------------------------------------------------------------------------
\* Properties of the entries, of a run without checkpoints and of a rerun
\* after a resumed run.
\* ------------------------------------------------------------------------

\* C33 (RunnerSpec). Timed-out flag consistency: the entry the batch loop
\* records has its timed_out flag set if and only if its state is timedout,
\* whether run_test returned from its normal path or from one of its two
\* handlers, or the loop caught the exception itself.
C33_TimedOutFlag ==
    res # NoRes => (res.timed_out <=> res.state = STATE_TIMEDOUT)

\* A child stopped by the cooperative timeout: flag set, state timedout.
C33_Witness ==
    /\ res # NoRes
    /\ inv.kind = "completed"
    /\ inv.returncode = 1
    /\ "Timeout" \in inv.out
    /\ res.timed_out
    /\ res.state = STATE_TIMEDOUT

\* The index the checkpoint file sends a run over test_names to: the first
\* place of its next_test in the list, 0 if it names none or is not read.
ResumePoint ==
    IF /\ cpFile.kind = "json"
       /\ cpFile.data.next_test # None
       /\ \E k \in 1..Len(test_names) : test_names[k] = cpFile.data.next_test
    THEN (CHOOSE k \in 1..Len(test_names) :
             /\ test_names[k] = cpFile.data.next_test
             /\ \A j \in 1..(k - 1) : test_names[j] # cpFile.data.next_test) - 1
    ELSE 0

\* C32 (Spec). Checkpointing disabled is a frame condition: no step of a run
\* with checkpointing disabled creates, overwrites or deletes the checkpoint
\* file, whatever resume, stop-on-failure and the outcomes of the tests;
\* with resume=true the file is still read, and the start index is the one
\* it yields for the list, so that a second such run over the same list,
\* finding the file as the first one found it, starts at the same index
\* (in rerun-from-log mode, at index 0 each time).
C32_NoCheckpointFrame ==
    /\ [][args.no_checkpoint => cpFile' = cpFile]_vars
    /\ [][(Resolved /\ args.no_checkpoint /\ args.resume)
            => start_index' = ResumePoint]_vars
    /\ []((args.no_checkpoint /\ args.src = "rerun") => start_index = 0)

\* A run with checkpointing disabled and resume=true that started at index 1
\* has reached its summary: the checkpoint it read is still there.
C32_Witness ==
    /\ pc = "done"
    /\ args.no_checkpoint
    /\ args.resume
    /\ start_index = 1
    /\ Len(test_names) = 2
    /\ cpFile = WrittenAfter(test_names, 0)

\* ------------------------------------------------------------------------
\* Three commands on one log path: a csv run that is interrupted, the same
\* command with --resume, and --rerun-failed on the log they leave.  prev
\* keeps what the processes that have ended had recorded.
\* ------------------------------------------------------------------------

\* The command line of a csv run with checkpointing enabled.
CsvCommand(resume, stop_on_failure) ==
    [sel |-> {"csv"}, parse_ok |-> TRUE, env_ok |-> TRUE, regex |-> None,
     rerun_include_timeouts |-> FALSE, resume |-> resume,
     no_checkpoint |-> FALSE, stop_on_failure |-> stop_on_failure]

ChainInit ==
    /\ Fresh
    /\ inv = NoInv
    /\ res = NoRes

\* The first command: nothing is at the log path.
FirstCommand ==
    /\ prev = NoPrev
    /\ \E stop_on_failure \in BOOLEAN :
          StartMain(CsvCommand(FALSE, stop_on_failure))

\* The second command: the same one, with --resume.
SecondCommand ==
    /\ prev # NoPrev
    /\ prev.at = "interrupted"
    /\ \E stop_on_failure \in BOOLEAN :
          StartMain(CsvCommand(TRUE, stop_on_failure))

\* The csv file is read; it is the same file in the second run.
ChainReadCsv ==
    /\ ReadCsv
    /\ pc' = "resolve"
    /\ prev # NoPrev => test_names' = prev.names

\* The first run ends before the end of its list: it is killed between two
\* turns of the loop, or stop-on-failure has ended the loop.
Interrupted ==
    /\ prev = NoPrev
    /\ results # <<>>
    /\ \/ pc = "batch"
       \/ pc = "exit_batch" /\ Len(results) < Len(test_names)
    /\ pc' = "idle"
    /\ prev' = [at |-> "interrupted", names |-> test_names, done |-> results]
    /\ Gone

\* The resumed run has gone through the rest of the list.
ResumedRunEnds ==
    /\ prev # NoPrev
    /\ prev.at = "interrupted"
    /\ pc = "exit_batch"
    /\ start_index + Len(results) = Len(test_names)
    /\ pc' = "idle"
    /\ prev' = [prev EXCEPT !.at = "completed", !.done = prev.done \o results]
    /\ Gone

\* The third command, --rerun-failed on the log (with a log of its own,
\* line 677): lines 695-704, tests_to_rerun.
ChainRerun ==
    /\ pc = "idle"
    /\ prev # NoPrev
    /\ prev.at = "completed"
    /\ LET r == parse_log_for_rerun(File(log))
       IN  /\ res' = r
           /\ test_names' = tests_to_rerun(r, FALSE)
    /\ pc' = "parsed"
    /\ UNCHANGED <<args, start_index, i, results, child, cpFile, wrote, rm,
                   summary, exit_code, prev, inv, logvars>>

ChainNext ==
    \/ FirstCommand
    \/ SecondCommand
    \/ ChainReadCsv
    \/ MainResolve
    \/ BatchTurn
    \/ Interrupted
    \/ ResumedRunEnds
    \/ ChainRerun

ChainSpec == ChainInit /\ [][ChainNext]_vars

\* C31 (ChainSpec). Rerun coverage across a resume: when a run over a list
\* has been interrupted after some index and a run with resume=true on the
\* same log path has gone through the rest of the list, the rerun-from-log
\* on that log re-executes every identifier for which one of the two runs
\* recorded the outcome failed, those of the interrupted part included.
C31_RerunAcrossResume ==
    pc = "parsed" =>
        \A k \in 1..Len(prev.done) :
            prev.done[k].state = STATE_FAILED
                => contains(test_names, prev.done[k].name)

====
